---- MODULE Spec2Model ----
(***************************************************************************)
(* The process bridge of Roo-Code-MCP: the Command Client that runs in the *)
(* forked MCP server process (vscode-bridge, executeCommandViaProcess) and *)
(* the Command Execution Bridge of the extension host (McpNodeServer),     *)
(* joined by the two directions of the IPC channel.                        *)
(* McpServerManager.startServer and the port handling of the child's       *)
(* startServer(port) are modelled next to it, on variables of their own.   *)
(***************************************************************************)
EXTENDS Integers, Sequences, FiniteSets, TLC

(* ---------------------------------------------------------------- bounds *)
\* Number of call() invocations the child makes.
MaxCalls == 2
\* Last value of the millisecond clock read by Date.now().
MaxClock == 1
\* The startServer() calls made on one manager.
MaxStarts == 2
\* The stopServer() calls made on managers.
MaxStops == 2
\* getInstance() calls and cleanup() calls on McpServerInstance.
MaxGets == 5
MaxCleanups == 2

CallIds == 1..MaxCalls
\* The startServer() calls made on McpServerManager objects; the child a call
\* forks carries the call's number.
StartIds == 1..MaxStarts
\* The McpServerManager objects: McpNodeServer.startServer makes a new one for
\* every call, so there are no more of them than startServer() calls.
ManagerIds == StartIds
\* The startServer / stopServer / restartServer calls made on McpNodeServer;
\* each makes at most one manager, for which it carries the number.
OpIds == ManagerIds
\* The stopServer() calls made on McpServerManager objects.
StopIds == 1..MaxStops
\* The McpServer a getInstance() call constructs carries the number of the call.
GetIds == 1..MaxGets
CleanupIds == 1..MaxCleanups

(* ------------------------------------------------- JavaScript values *)
\* Values are tagged records; the tag is compared first.
Undef == [t |-> "undefined"]
Null == [t |-> "null"]
\* A string is the sequence of its tokens; the empty string has none.
Str(tokens) == [t |-> "string", v |-> tokens]
Arr(elems) == [t |-> "array", v |-> elems]
Obj(keys) == [t |-> "object", v |-> keys]
Num(n) == [t |-> "number", v |-> n]
Bool(b) == [t |-> "boolean", v |-> b]

\* The truthiness test of `a || b`.
Falsy(x) ==
    \/ x.t \in {"undefined", "null"}
    \/ (x.t = "string" /\ x.v = <<>>)
    \/ (x.t = "number" /\ x.v = 0)
    \/ (x.t = "boolean" /\ x.v = FALSE)

\* Message texts are sequences of tokens; a text contains a name when the
\* name is one of its tokens.
Contains(text, name) == \E i \in 1..Len(text) : text[i] = name

(* ------------------------------------------------------------ messages *)
EXECUTE_COMMAND == "execute_command"
GET_COMMANDS == "get_commands"
COMMAND_RESULT == "command_result"
COMMAND_ERROR == "command_error"
COMMAND_OUTPUT == "command_output"
COMMANDS_LIST == "commands_list"

\* Fields that hold a JavaScript value (the others hold strings or ids).
ValueFields == {"args", "output", "result", "commands"}

\* JSON.stringify of a value: an object member whose value is undefined is
\* left out.
RECURSIVE JsonElements(_)
RECURSIVE JsonValue(_)
\* JSON.stringify of the elements of an array: undefined becomes null.
JsonElements(elems) ==
    IF elems = <<>> THEN <<>>
    ELSE <<IF Head(elems).t = "undefined" THEN Null ELSE JsonValue(Head(elems))>>
             \o JsonElements(Tail(elems))

JsonValue(x) ==
    IF x.t = "object" /\ "result" \in DOMAIN x
    THEN IF x.result.t = "undefined"
         THEN [t |-> "object", v |-> x.v \ {"result"}, status |-> x.status,
               command |-> x.command]
         ELSE [x EXCEPT !.result = JsonValue(x.result)]
    ELSE IF x.t = "array" THEN Arr(JsonElements(x.v))
    ELSE x

\* JSON.stringify(message): members whose value is undefined are left out.
stringifyMessage(m) ==
    LET kept == {k \in DOMAIN m : k \notin ValueFields \/ m[k].t # "undefined"}
    IN [json |-> [k \in kept |-> IF k \in ValueFields THEN JsonValue(m[k]) ELSE m[k]]]

\* What parseMessage returns for text that is not JSON.
NoMessage == [type |-> "null"]

\* JSON.parse inside try/catch: the decoded object, or null.
parseMessage(w) == IF "json" \in DOMAIN w THEN w.json ELSE NoMessage

\* message.<field>: undefined when the member is absent.
Get(m, k) == IF k \in DOMAIN m THEN m[k] ELSE Undef

(* ------------------------------------------------------------- request ids *)
\* The text of an id: the decimal timestamp followed by a digit suffix.
NoId == [ts |-> -1, sfx |-> "none"]

\* Math.random().toString().substring(2): the digits after "0."; Math.random()
\* may return 0, whose text "0" has nothing after index 2.
RandomSuffixes == {"", "7"}

ClientRequestId(ts, sfx) == [ts |-> ts, sfx |-> sfx]

\* Date.now().toString()
HostRequestId(ts) == [ts |-> ts, sfx |-> ""]

(* ------------------------------------------------------------ inputs *)
\* The capability table (commandsMap) registered by the host application.
commandsMap == {"echo", "fail"}

\* Object.keys(commandsMap)
RECURSIVE Keys(_)
Keys(map) ==
    IF map = {} THEN <<>>
    ELSE LET name == CHOOSE n \in map : TRUE IN <<name>> \o Keys(map \ {name})

\* An entry of the commands list.
CommandEntry(name, description) ==
    [t |-> "object", v |-> {"name", "description"}, name |-> name, description |-> description]

RECURSIVE EntriesOf(_)
EntriesOf(names) ==
    IF names = <<>> THEN <<>>
    ELSE <<CommandEntry(Head(names), <<"Execute the ", Head(names), " command">>)>>
             \o EntriesOf(Tail(names))

\* Mutant: only the entry pushed for vscode.executeCommand is sent.
OnlyVscodeCommand(names) ==
    Arr(<<CommandEntry("vscode.executeCommand", <<"Execute a VSCode command">>)>>)

\* The `commands` of sendCommandsList: an entry per key of commandsMap, then
\* the entry pushed for vscode.executeCommand.
CommandsOf(names) ==
    Arr(EntriesOf(names)
          \o <<CommandEntry("vscode.executeCommand", <<"Execute a VSCode command">>)>>)

CommandsListMessage == [type |-> COMMANDS_LIST, commands |-> CommandsOf(Keys(commandsMap))]

GetCommandsMessage == [type |-> GET_COMMANDS]

\* The names of the entries of a commands list.
NamesOf(commands) == {commands.v[i].name : i \in 1..Len(commands.v)}

\* No ListTools request answered yet.
NotListed == [kind |-> "none"]

Hi == Str(<<"hi">>)
TwoArgs == Arr(<<Hi, Str(<<"yo">>)>>)
PromptObj == Obj({"prompt"})

\* The (command, args) pairs of concurrent calls: a capability that returns, one
\* that raises, and a name that is not registered.
Requests == { <<"echo", Hi>>, <<"fail", Arr(<<>>)>>, <<"nope", PromptObj>> }

\* Every shape of args, for a single call.
ArgShapes ==
    { Undef, Null, Arr(<<>>), TwoArgs, Arr(<<Null>>), PromptObj, Obj({"result"}), Obj({}),
      Hi, Str(<<>>), Num(0), Num(5), Bool(FALSE), Bool(TRUE) }

\* The calls made against a host that may send anything.
ClientRequests == { <<"echo", Hi>>, <<"nope", PromptObj>> }

ShapeRequests ==
    {<<"echo", a>> : a \in ArgShapes} \cup {<<"fail", TwoArgs>>, <<"nope", Null>>}

VARIABLES
    now,        \* the clock read by Date.now() in both processes
    channel,    \* "up": forked with IPC and alive; "none": no process.send; "dead": child exited
    callState,  \* per call: "idle", "pending", "resolved", "rejected"
    callInfo,   \* per call: requestId, command, args
    outcome,    \* per call: the value resolved with, or the text of the Error rejected with
    listeners,  \* calls whose processMessageListener is registered on process "message"
    timers,     \* calls whose 30 s timeout is armed
    acted,      \* per call: terminal messages its messageHandler acted upon
    lateSeen,   \* whether a call that had settled received a terminal message with its id
    toHost,     \* IPC child -> host
    toChild,    \* IPC host -> child
    sink,       \* per call: the output chunks handed to the caller of the invocation
    sentOrder,  \* calls in the order their EXECUTE_COMMAND was sent
    execs,      \* host executions in the order their EXECUTE_COMMAND was handled
    hostLog,    \* per execution: the messages the host sent for it
    serverProcess,  \* per manager: McpServerManager.serverProcess, a child or NoProcess
    starts,     \* per startServer() call: its promise, its start-wait timer, its child
    stops,      \* per stopServer() call: its promise, its force-kill timer, its target
    child,      \* per forked child process: its status and how far its startServer(port) got
    port,       \* who holds the target port: "free", "other" (a foreign process), "child"
    serverManager,  \* McpNodeServer.serverManager: the manager it uses, or NoManager
    statusBar,  \* McpNodeServer.statusBarItem.text
    nodeOps,    \* per startServer/stopServer/restartServer call on McpNodeServer: how far it got
    availableCommands,  \* vscode-bridge: the cached capability list
    toolHandlers,   \* vscode-bridge: the names a tool handler is registered for
    bridgeReady,    \* whether the child's index.ts has run initializeBridge()
    uncaught,   \* whether an exception has escaped a "message" listener of the child
    listed,     \* what the last ListTools request was answered with
    codec,      \* a message on its way through stringifyMessage and parseMessage
    instance,   \* McpServerInstance.instance: a McpServer or NoInstance
    initializationPromise,  \* McpServerInstance.initializationPromise: its call or NoPromise
    servers,    \* per McpServer: "none", "live", "disposing" (isDisposed set), "disposed"
    gets,       \* per getInstance() call: how far it got and what it returned
    cleanups,   \* per cleanup() call: how far it got and the McpServer it disposes
    tasks,      \* per Roo Code task: its status and the kinds of message event it emitted
    waits,      \* per host execution: taskId and latestMessage of its task completion wait
    waiters,    \* executions whose messageHandler and completionHandler are on the api
    messageHandler, \* per manager: whether McpServerManager.messageHandler is set
    delivered   \* per child, for the last message it sent: whether the manager had a
                \* handler, and how often the handler ran

bridgeVars == <<now, channel, callState, callInfo, outcome, listeners, timers, acted,
                lateSeen, sink, toHost, toChild, sentOrder, execs, hostLog>>
nodeVars == <<serverManager, statusBar, nodeOps>>
lifeVars == <<serverProcess, starts, stops, child, port, nodeVars>>
cacheVars == <<availableCommands, toolHandlers, bridgeReady, uncaught, listed>>
instVars == <<instance, initializationPromise, servers, gets, cleanups>>
taskVars == <<tasks, waits, waiters>>
handlerVars == <<messageHandler, delivered>>
otherVars == <<instVars, taskVars, handlerVars>>
vars == <<bridgeVars, lifeVars, cacheVars, codec, otherVars>>

clientVars ==
    <<callState, callInfo, outcome, listeners, timers, acted, lateSeen, sink, sentOrder>>
hostVars == <<execs, hostLog>>

NoCall == [requestId |-> NoId, command |-> "", args |-> Undef]
NoOutcome == [kind |-> "none"]

\* `private serverProcess: ChildProcess | null = null`
NoProcess == 0
\* `private serverManager: McpServerManager | null = null`
NoManager == 0
\* `new McpServerManager(this.extensionPath, 5201, logger)`
serverPort == 5201

\* A startServer() call not made yet, and a child not forked yet.
NoStart == [called |-> FALSE, mgr |-> NoManager, timer |-> FALSE, outcome |-> NoOutcome,
            joined |-> {}]
NoChild == [status |-> "none", pc |-> "none", kills |-> 0,
            firstProbe |-> "none", secondProbe |-> "none", signal |-> "none", handlers |-> 0]
\* A child that has sent no message yet.
NothingSent == [sent |-> FALSE, handler |-> FALSE, times |-> 0]
\* `private static instance: McpServer | null = null`
NoInstance == 0
\* `private static initializationPromise: Promise<McpServer> | null = null`
NoPromise == 0
\* A getInstance() call and a cleanup() call not made yet.
NoGet == [pc |-> "idle", on |-> NoPromise, result |-> NoInstance]
CleanupNotCalled == [pc |-> "idle", target |-> NoInstance]
\* A task not created yet; `let taskId: string | null = null`; and the task
\* completion wait of an execution that has not reached it.
NotStarted == [status |-> "none", said |-> {}]
NoTask == 0
NoWait == [registered |-> FALSE, taskId |-> NoTask, latestMessage |-> <<>>]
\* A call on McpNodeServer not made yet.
NoOp == [kind |-> "none", pc |-> "idle", stopCall |-> {}, startCall |-> {},
         stopFailed |-> FALSE, startFailed |-> FALSE, outcome |-> NoOutcome]
\* A stopServer() call not made yet.
NoStop == [called |-> FALSE, mgr |-> NoManager, target |-> NoProcess, timer |-> FALSE,
           outcome |-> NoOutcome, before |-> {}]

Constructed ==
    /\ now = 0
    /\ channel \in {"up", "none"}
    /\ callState = [c \in CallIds |-> "idle"]
    /\ callInfo = [c \in CallIds |-> NoCall]
    /\ outcome = [c \in CallIds |-> NoOutcome]
    /\ listeners = {}
    /\ timers = {}
    /\ acted = [c \in CallIds |-> 0]
    /\ lateSeen = FALSE
    /\ sink = [c \in CallIds |-> <<>>]
    /\ toHost = <<>>
    /\ toChild = <<>>
    /\ sentOrder = <<>>
    /\ execs = <<>>
    /\ hostLog = <<>>
    /\ serverProcess = [g \in ManagerIds |-> NoProcess]
    /\ starts = [s \in StartIds |-> NoStart]
    /\ stops = [p \in StopIds |-> NoStop]
    /\ child = [k \in StartIds |-> NoChild]
    /\ port = "free"
    /\ serverManager = NoManager
    /\ statusBar = "MCP: Starting..."
    /\ nodeOps = [n \in OpIds |-> NoOp]
    /\ uncaught = FALSE
    /\ listed = NotListed
    /\ codec = [stage |-> "idle", sent |-> NoMessage, wire |-> [text |-> ""],
                parsed |-> NoMessage]
    /\ instance = NoInstance
    /\ initializationPromise = NoPromise
    /\ servers = [v \in GetIds |-> "none"]
    /\ gets = [n \in GetIds |-> NoGet]
    /\ cleanups = [q \in CleanupIds |-> CleanupNotCalled]
    /\ tasks = [t \in CallIds |-> NotStarted]
    /\ waits = [e \in CallIds |-> NoWait]
    /\ waiters = <<>>
    /\ messageHandler = [g \in ManagerIds |-> FALSE]
    /\ delivered = [k \in StartIds |-> NothingSent]

\* The child as forked, before its index.ts has run.
InitBoot ==
    /\ Constructed
    /\ bridgeReady = FALSE
    /\ availableCommands = Arr(<<>>)
    /\ toolHandlers = {}

\* The child after its index.ts has run and, where it has a channel, its
\* startup discovery has been answered.
Init ==
    /\ Constructed
    /\ bridgeReady = TRUE
    /\ availableCommands = IF channel = "up" THEN CommandsListMessage.commands ELSE Arr(<<>>)
    /\ toolHandlers = NamesOf(availableCommands)

\* The clock advances.
Tick ==
    /\ now < MaxClock
    /\ now' = now + 1
    /\ UNCHANGED <<channel, clientVars, toHost, toChild, hostVars>>
    /\ UNCHANGED <<lifeVars, cacheVars, codec, otherVars>>

(* ------------------------------------------------------- Command Client *)
\* The object passed to stringifyMessage by executeCommandViaProcess.
ExecuteCommandMessage(requestId, command, args) ==
    [type |-> EXECUTE_COMMAND, command |-> command, args |-> args]

\* Mutant: the timeout callback resolves the call instead of rejecting it.
TimeoutResolves(command) == [kind |-> "resolved", value |-> Undef]

\* The Error a timed-out call rejects with.
TimeoutError(command) ==
    [kind |-> "rejected", error |-> <<"Command execution timed out: ", command>>]

\* The Error a call rejects with when process.send is absent.
TransportError ==
    [kind |-> "rejected",
     error |-> <<"Cannot communicate with VSCode extension: process.send is not available">>]

\* Mutant: any terminal message matches, whatever id it carries.
MatchesAnyTerminal(m, requestId) == m.type \in {COMMAND_RESULT, COMMAND_ERROR}

\* The condition of messageHandler: a terminal message carrying this call's id.
MessageMatches(m, requestId) ==
    /\ m.type \in {COMMAND_RESULT, COMMAND_ERROR}
    /\ "requestId" \in DOMAIN m
    /\ m.requestId = requestId

\* What messageHandler settles the call with: resolve(message.result) or
\* reject(new Error(message.error)).
TerminalOutcome(m) ==
    IF m.type = COMMAND_RESULT
    THEN [kind |-> "resolved", value |-> Get(m, "result")]
    ELSE [kind |-> "rejected", error |-> Get(m, "error")]

\* resolve/reject of the call's promise: only the first settlement counts.
SettledOutcome(old, new) == IF old.kind = "none" THEN new ELSE old

StateOf(oc) == IF oc.kind = "none" THEN "pending" ELSE oc.kind

\* Mutant: clearTimeout disarms every call's timeout.
ClearEveryTimeout(armed, matched) == IF matched = {} THEN armed ELSE {}

\* clearTimeout(timeout) in messageHandler, for the calls the message matched.
ClearTimeouts(armed, matched) == armed \ matched

\* Mutant: messageHandler leaves its listener registered.
KeepListeners(registered, matched) == registered

\* process.removeListener("message", processMessageListener) in messageHandler.
RemoveListeners(registered, matched) == registered \ matched

\* Mutant: the branch without process.send rejects without cleaning up.
NoCleanup(registered, c) == registered

\* The cleanup of the branch taken when process.send is absent.
CleanupNoSend(registered, c) == registered \ {c}

\* The listener registrations left after the timeout callback ran.
ListenersAfterTimeout(registered, c) == registered

\* executeCommandViaProcess(command, args), to the end of the promise executor.
executeCommandViaProcess(c, req, sfx) ==
    /\ channel \in {"up", "none"}
    /\ callState[c] = "idle"
    /\ \A b \in 1..(c - 1) : callState[b] # "idle"
    /\ LET requestId == ClientRequestId(now, sfx)
           command == req[1]
           args == req[2]
       IN /\ callInfo' = [callInfo EXCEPT ![c] =
                            [requestId |-> requestId, command |-> command, args |-> args]]
          /\ IF channel = "up"
             THEN /\ toHost' = Append(toHost,
                                stringifyMessage(ExecuteCommandMessage(requestId, command, args)))
                  /\ sentOrder' = Append(sentOrder, c)
                  /\ listeners' = listeners \cup {c}
                  /\ timers' = timers \cup {c}
                  /\ callState' = [callState EXCEPT ![c] = "pending"]
                  /\ outcome' = outcome
             ELSE /\ listeners' = CleanupNoSend(listeners \cup {c}, c)
                  /\ timers' = CleanupNoSend(timers \cup {c}, c)
                  /\ outcome' = [outcome EXCEPT ![c] = SettledOutcome(@, TransportError)]
                  /\ callState' = [callState EXCEPT ![c] = StateOf(outcome'[c])]
                  /\ UNCHANGED <<toHost, sentOrder>>
    /\ UNCHANGED <<now, channel, acted, lateSeen, sink, toChild, hostVars>>
    /\ UNCHANGED <<lifeVars, cacheVars, codec, otherVars>>

\* The 30 s timeout callback of call c.
TimeoutFires(c) ==
    /\ channel \in {"up", "none"}
    /\ c \in timers
    /\ timers' = timers \ {c}
    /\ listeners' = ListenersAfterTimeout(listeners, c)
    /\ outcome' = [outcome EXCEPT ![c] = SettledOutcome(@, TimeoutError(callInfo[c].command))]
    /\ callState' = [callState EXCEPT ![c] = StateOf(outcome'[c])]
    /\ UNCHANGED <<now, channel, callInfo, acted, lateSeen, sink, toHost, toChild, sentOrder,
                   hostVars>>
    /\ UNCHANGED <<lifeVars, cacheVars, codec, otherVars>>

\* What messageHandler hands to the caller of an invocation for the message m:
\* it has a branch for COMMAND_RESULT and one for COMMAND_ERROR and none for
\* COMMAND_OUTPUT, and executeCommandViaProcess takes no output callback.
ForwardedChunks(m) == <<>>

\* The process "message" event for the text w: every registered
\* processMessageListener parses it and runs its messageHandler.
processMessageListener(w) ==
    LET m == parseMessage(w)
        matched == IF m = NoMessage THEN {}
                   ELSE {c \in listeners : MessageMatches(m, callInfo[c].requestId)}
        late == IF m = NoMessage THEN {}
                ELSE {c \in CallIds \ listeners :
                         /\ callState[c] \in {"resolved", "rejected"}
                         /\ m.type \in {COMMAND_RESULT, COMMAND_ERROR}
                         /\ "requestId" \in DOMAIN m
                         /\ m.requestId = callInfo[c].requestId}
    IN /\ timers' = ClearTimeouts(timers, matched)
       /\ listeners' = RemoveListeners(listeners, matched)
       /\ outcome' = [c \in CallIds |->
                         IF c \in matched THEN SettledOutcome(outcome[c], TerminalOutcome(m))
                         ELSE outcome[c]]
       /\ callState' = [c \in CallIds |->
                         IF c \in matched THEN StateOf(outcome'[c]) ELSE callState[c]]
       /\ acted' = [c \in CallIds |-> IF c \in matched THEN acted[c] + 1 ELSE acted[c]]
       /\ lateSeen' = (lateSeen \/ late # {})
       /\ sink' = [c \in CallIds |->
                      IF m # NoMessage /\ c \in listeners
                      THEN sink[c] \o ForwardedChunks(m) ELSE sink[c]]

\* setAvailableCommands(commands): the cache is assigned, then a handler is
\* registered for each entry; commands.forEach throws when commands is no array.
setAvailableCommands(commands) ==
    /\ availableCommands' = commands
    /\ IF commands.t = "array"
       THEN /\ toolHandlers' = toolHandlers \cup NamesOf(commands)
            /\ uncaught' = uncaught
       ELSE /\ toolHandlers' = toolHandlers
            /\ uncaught' = TRUE

\* The "message" listener registered by initializeBridge, for the text w.
bridgeMessageListener(w) ==
    LET m == parseMessage(w)
    IN IF bridgeReady /\ m # NoMessage /\ m.type = COMMANDS_LIST
       THEN setAvailableCommands(Get(m, "commands"))
       ELSE UNCHANGED <<availableCommands, toolHandlers, uncaught>>

\* The process "message" event of the child for the text w: the listener of
\* initializeBridge runs first, then those of the pending calls. An exception
\* that escapes a listener ends the emit and, with no uncaughtException
\* handler in index.ts, the process.
ProcessMessageEvent(w) ==
    /\ bridgeMessageListener(w)
    /\ IF uncaught'
       THEN /\ channel' = "dead"
            /\ toChild' = <<>>
            /\ UNCHANGED <<timers, listeners, outcome, callState, acted, lateSeen, sink>>
       ELSE /\ channel' = channel
            /\ processMessageListener(w)
    /\ UNCHANGED <<bridgeReady, listed>>

\* The child receives the next message the host sent.
ChildReceives ==
    /\ channel = "up"
    /\ toChild # <<>>
    /\ ProcessMessageEvent(Head(toChild))
    /\ ~uncaught' => toChild' = Tail(toChild)
    /\ UNCHANGED <<now, callInfo, toHost, sentOrder, hostVars>>
    /\ UNCHANGED <<lifeVars, codec, otherVars>>

(* --------------------------------------------- Command Execution Bridge *)
\* Mutant: an args array is passed as one parameter instead of being spread.
executeWithArgsUnspread(args) ==
    IF args.t \in {"array", "object"}
    THEN [note |-> <<"Executing with object args: ">>, params |-> <<args>>]
    ELSE IF args.t \in {"undefined", "null"}
    THEN [note |-> <<"Executing with no args">>, params |-> <<>>]
    ELSE [note |-> <<"Executing with primitive arg: ">>, params |-> <<args>>]

\* executeWithArgs: the note it streams and the parameters it calls fn with.
executeWithArgs(args) ==
    IF args.t = "array"
    THEN [note |-> <<"Executing with spread array args: ">>, params |-> args.v]
    ELSE IF args.t = "object"
    THEN [note |-> <<"Executing with object args: ">>, params |-> <<args>>]
    ELSE IF args.t \in {"undefined", "null"}
    THEN [note |-> <<"Executing with no args">>, params |-> <<>>]
    ELSE [note |-> <<"Executing with primitive arg: ">>, params |-> <<args>>]

\* message.args || []
ArgsOfMessage(m) == IF Falsy(Get(m, "args")) THEN Arr(<<>>) ELSE Get(m, "args")

\* message.requestId || Date.now().toString()
RequestIdOfMessage(m, ts) ==
    IF "requestId" \in DOMAIN m THEN m.requestId ELSE HostRequestId(ts)

\* The capability a command names, applied to its parameters: echo returns its
\* first parameter, fail raises, and a name outside commandsMap goes to
\* vscode.commands.executeCommand, which rejects an unregistered command.
Invoke(command, params) ==
    IF command = "echo"
    THEN [ok |-> TRUE, value |-> IF Len(params) > 0 THEN params[1] ELSE Undef, error |-> <<>>]
    ELSE IF command \in commandsMap
    THEN [ok |-> FALSE, value |-> Undef, error |-> <<"boom">>]
    ELSE [ok |-> FALSE, value |-> Undef, error |-> <<"command '", command, "' not found">>]

\* `"result" in result` for a value whose typeof is "object".
HasResultKey(x) == x.t = "object" /\ "result" \in x.v

\* formattedResult of sendCommandResult.
FormatResult(command, result) ==
    IF result.t \in {"object", "array"} /\ HasResultKey(result)
    THEN result
    ELSE [t |-> "object", v |-> {"result", "status", "command"},
          result |-> result, status |-> "success", command |-> command]

\* The messages of sendCommandResult, sendCommandError and sendCommandOutput.
CommandResultMessage(command, result, requestId) ==
    [type |-> COMMAND_RESULT, requestId |-> requestId, output |-> FormatResult(command, result)]

CommandErrorMessage(command, error, requestId) ==
    [type |-> COMMAND_ERROR, requestId |-> requestId,
     error |-> <<"Error executing command ", command, ": ">> \o error]

CommandOutputMessage(command, output, requestId) ==
    [type |-> COMMAND_OUTPUT, requestId |-> requestId, output |-> Str(output)]

\* serverManager.isRunning()
isRunning == channel = "up"

\* sendMessageToServer(stringifyMessage(m)) behind the isRunning() guard of the
\* three send methods, for execution e.
HostSends(e, m) ==
    IF isRunning
    THEN /\ toChild' = Append(toChild, stringifyMessage(m))
         /\ hostLog' = [hostLog EXCEPT ![e] = Append(@, parseMessage(stringifyMessage(m)))]
    ELSE UNCHANGED <<toChild, hostLog>>

\* The text sendCommandResult streams from the catch block of executeCommand.
ErrorResultText(command, error) == <<"Error executing command ", command, ": ">> \o error

\* The text sendCommandResult streams once a command that is no task returned.
FinalOutputText(command) == <<"Command ", command, " completed successfully.">>

\* sendCommandsList(): nothing is sent unless the server is running.
sendCommandsList ==
    IF isRunning
    THEN toChild' = Append(toChild, stringifyMessage(CommandsListMessage))
    ELSE toChild' = toChild

\* The manager's message listener: parseMessage, then handleServerMessage, then
\* executeCommand up to its first await.
handleServerMessage ==
    /\ toHost # <<>>
    /\ toHost' = Tail(toHost)
    /\ LET m == parseMessage(Head(toHost))
       IN IF m # NoMessage /\ m.type = EXECUTE_COMMAND /\ "command" \in DOMAIN m
          THEN LET requestId == RequestIdOfMessage(m, now)
                   args == ArgsOfMessage(m)
                   run == executeWithArgs(args)
                   out == CommandOutputMessage(m.command, run.note, requestId)
               IN /\ execs' = Append(execs,
                                [requestId |-> requestId, command |-> m.command,
                                 sentArgs |-> Get(m, "args"), params |-> run.params,
                                 phase |-> "awaiting", value |-> Undef, error |-> <<>>])
                  /\ IF isRunning
                     THEN /\ toChild' = Append(toChild, stringifyMessage(out))
                          /\ hostLog' = Append(hostLog, <<parseMessage(stringifyMessage(out))>>)
                     ELSE /\ toChild' = toChild
                          /\ hostLog' = Append(hostLog, <<>>)
          ELSE IF m # NoMessage /\ m.type = GET_COMMANDS
          THEN /\ sendCommandsList
               /\ UNCHANGED <<execs, hostLog>>
          ELSE UNCHANGED <<execs, hostLog, toChild>>
    /\ UNCHANGED <<now, channel, clientVars>>
    /\ UNCHANGED <<lifeVars, cacheVars, codec, otherVars>>

\* The capability of execution e settles and executeCommand runs on to its
\* return (or through its catch block to the rethrow).
CapabilitySettles(e) ==
    /\ e \in 1..Len(execs)
    /\ execs[e].phase = "awaiting"
    /\ LET x == execs[e]
           r == Invoke(x.command, x.params)
       IN IF r.ok
          THEN /\ execs' = [execs EXCEPT ![e].phase = "returned", ![e].value = r.value]
               /\ HostSends(e, CommandResultMessage(x.command,
                                    Str(FinalOutputText(x.command)), x.requestId))
          ELSE /\ execs' = [execs EXCEPT ![e].phase = "threw", ![e].error = r.error]
               /\ HostSends(e, CommandResultMessage(x.command,
                                    Str(ErrorResultText(x.command, r.error)), x.requestId))
    /\ UNCHANGED <<now, channel, clientVars, toHost>>
    /\ UNCHANGED <<lifeVars, cacheVars, codec, otherVars>>

\* The .then callback of handleServerMessage.
HostThen(e) ==
    /\ e \in 1..Len(execs)
    /\ execs[e].phase = "returned"
    /\ execs' = [execs EXCEPT ![e].phase = "done"]
    /\ HostSends(e, CommandResultMessage(execs[e].command, execs[e].value, execs[e].requestId))
    /\ UNCHANGED <<now, channel, clientVars, toHost>>
    /\ UNCHANGED <<lifeVars, cacheVars, codec, otherVars>>

\* The .catch callback of handleServerMessage.
HostCatch(e) ==
    /\ e \in 1..Len(execs)
    /\ execs[e].phase = "threw"
    /\ execs' = [execs EXCEPT ![e].phase = "done"]
    /\ HostSends(e, CommandErrorMessage(execs[e].command, execs[e].error, execs[e].requestId))
    /\ UNCHANGED <<now, channel, clientVars, toHost>>
    /\ UNCHANGED <<lifeVars, cacheVars, codec, otherVars>>

\* The child process exits: the manager's exit handler clears serverProcess,
\* and what was in flight to the child is lost.
ChildExits ==
    /\ channel = "up"
    /\ channel' = "dead"
    /\ toChild' = <<>>
    /\ UNCHANGED <<now, clientVars, toHost, hostVars>>
    /\ UNCHANGED <<lifeVars, cacheVars, codec, otherVars>>

(* ------------------------------------------------------- specifications *)
\* The child, the channel and the host as the repository wires them.
Next ==
    \/ Tick
    \/ \E c \in CallIds, req \in Requests, sfx \in RandomSuffixes :
          executeCommandViaProcess(c, req, sfx)
    \/ \E c \in CallIds : TimeoutFires(c)
    \/ ChildReceives
    \/ handleServerMessage
    \/ \E e \in CallIds : CapabilitySettles(e)
    \/ \E e \in CallIds : HostThen(e)
    \/ \E e \in CallIds : HostCatch(e)
    \/ ChildExits

Spec == Init /\ [][Next]_vars

\* One call at a time through the whole bridge, over every shape of args.
NextShapes ==
    \/ Tick
    \/ \E req \in ShapeRequests, sfx \in RandomSuffixes : executeCommandViaProcess(1, req, sfx)
    \/ TimeoutFires(1)
    \/ ChildReceives
    \/ handleServerMessage
    \/ CapabilitySettles(1)
    \/ HostThen(1)
    \/ HostCatch(1)
    \/ ChildExits

SpecShapes == Init /\ [][NextShapes]_vars

\* The texts a host may put on the channel, whatever it runs: a result and an
\* error under every id a call can have, an output chunk, a terminal message
\* without an id, a message of another kind, and text that is not JSON.
PossibleIds == {ClientRequestId(ts, sfx) : ts \in 0..MaxClock, sfx \in RandomSuffixes}

AnyHostTexts ==
    {stringifyMessage(CommandResultMessage("echo", Hi, id)) : id \in PossibleIds}
    \cup {stringifyMessage(CommandErrorMessage("nope", <<"boom">>, id)) : id \in PossibleIds}
    \cup {stringifyMessage(CommandOutputMessage("echo", <<"hi">>, HostRequestId(0))),
          stringifyMessage([type |-> COMMAND_RESULT, result |-> Hi]),
          stringifyMessage([type |-> COMMANDS_LIST]),
          [text |-> "not json"]}

\* The child receives a text from a host that may send anything.
ChildReceivesAny(w) ==
    /\ channel = "up"
    /\ ProcessMessageEvent(w)
    /\ ~uncaught' => toChild' = toChild
    /\ UNCHANGED <<now, callInfo, toHost, sentOrder, hostVars>>
    /\ UNCHANGED <<lifeVars, codec, otherVars>>

\* The Command Client against any host.
NextClient ==
    \/ Tick
    \/ \E c \in CallIds, req \in ClientRequests, sfx \in RandomSuffixes :
          executeCommandViaProcess(c, req, sfx)
    \/ \E c \in CallIds : TimeoutFires(c)
    \/ \E w \in AnyHostTexts : ChildReceivesAny(w)

SpecClient == Init /\ [][NextClient]_vars

(* -------------------------------------------- Process Lifecycle Manager *)
\* The promise of a startServer() call fulfilled, and rejected with an Error.
Started == [kind |-> "resolved", value |-> Undef]
StartFailed(error) == [kind |-> "rejected", error |-> error]

\* The promise of a stopServer() call fulfilled, and rejected with what the
\* promise executor threw.
Stopped == [kind |-> "resolved", value |-> Undef]
StopFailed(error) == [kind |-> "rejected", error |-> error]

\* Mutant: startServer does not look at the process it already holds.
NeverRunning(proc) == FALSE

\* `if (this.serverProcess)` at the top of startServer.
AlreadyRunning(proc) == proc # NoProcess

\* The start calls whose start wait is still pending on the child the manager
\* holds now.
InFlightStarts(g) ==
    {s \in StartIds :
        starts[s].timer /\ starts[s].outcome.kind = "none" /\ serverProcess[g] = s}

\* The manager that forked child k.
ManagerOf(k) == starts[k].mgr

\* fork(serverPath, ...): the new ChildProcess, whose process runs index.ts or,
\* when spawning fails, never comes to exist.
Forked(spawnOk) ==
    [status |-> IF spawnOk THEN "running" ELSE "spawnError", pc |-> "probe", kills |-> 0,
     firstProbe |-> "none", secondProbe |-> "none", signal |-> "none", handlers |-> 0]

\* `if (this.messageHandler)` in startServer: set by a setMessageHandler call
\* on the manager, which McpNodeServer.startServer makes on the manager it
\* creates before it starts it.
HandlerSet(g) == messageHandler[g] \/ serverManager' = g

\* The "message" listeners setMessageHandler has put on a new child.
ListenersAtFork(g) == IF HandlerSet(g) THEN 1 ELSE 0

\* McpServerManager.startServer() on manager g, to the end of the promise
\* executor: what it does to the manager, its calls and the children.
ManagerStart(g, s, fileExists, spawnOk) ==
    /\ ~starts[s].called
    /\ \A b \in 1..(s - 1) : starts[b].called
    /\ IF AlreadyRunning(serverProcess[g])
       THEN /\ starts' = [starts EXCEPT ![s] =
                            [called |-> TRUE, mgr |-> g, timer |-> FALSE, outcome |-> Started,
                             joined |-> InFlightStarts(g)]]
            /\ UNCHANGED <<serverProcess, child>>
       ELSE IF ~fileExists
       THEN /\ starts' = [starts EXCEPT ![s] =
                            [called |-> TRUE, mgr |-> g, timer |-> FALSE,
                             outcome |-> StartFailed(<<"Server file not found: ", "index.js">>),
                             joined |-> {}]]
            /\ UNCHANGED <<serverProcess, child>>
       ELSE /\ child' = [child EXCEPT ![s] =
                            [Forked(spawnOk) EXCEPT !.handlers = ListenersAtFork(g)]]
            /\ serverProcess' = [serverProcess EXCEPT ![g] = s]
            /\ starts' = [starts EXCEPT ![s] =
                            [called |-> TRUE, mgr |-> g, timer |-> TRUE, outcome |-> NoOutcome,
                             joined |-> {}]]

\* A startServer() call made directly on manager g.
startServer(g, s, fileExists, spawnOk) ==
    /\ UNCHANGED <<stops, port, nodeVars, bridgeVars, cacheVars, codec, otherVars>>
    /\ ManagerStart(g, s, fileExists, spawnOk)

\* The "error" listener startServer registered on child k.
ChildErrorEvent(k) ==
    /\ child[k].status = "spawnError"
    /\ child' = [child EXCEPT ![k].status = "failed"]
    /\ serverProcess' = [serverProcess EXCEPT ![ManagerOf(k)] = NoProcess]
    /\ starts' = [starts EXCEPT ![k].outcome = SettledOutcome(@, StartFailed(<<"spawn failed">>))]
    /\ UNCHANGED <<stops, port, nodeVars, bridgeVars, cacheVars, codec, otherVars>>

\* Child k's process ends and the "exit" listener startServer registered on it
\* runs; the port it had bound is released.
ChildExitEvent(k) ==
    /\ child[k].status = "running"
    /\ child' = [child EXCEPT ![k].status = "exited"]
    /\ serverProcess' = [serverProcess EXCEPT ![ManagerOf(k)] = NoProcess]
    /\ port' = IF child[k].pc = "listening" THEN "free" ELSE port
    /\ stops' = [p \in StopIds |->
                    IF stops[p].target = k
                    THEN [stops[p] EXCEPT !.outcome = SettledOutcome(@, Stopped)]
                    ELSE stops[p]]
    /\ UNCHANGED <<starts, nodeVars, bridgeVars, cacheVars, codec, otherVars>>

\* The callback of the start wait of call s, 1000 ms after it. The "error"
\* event of a fork that failed is emitted long before: no child forked by
\* then still has it pending.
StartWaitElapsed(s) ==
    /\ starts[s].timer
    /\ \A k \in 1..s : child[k].status # "spawnError"
    /\ starts' = [starts EXCEPT
                    ![s].timer = FALSE,
                    ![s].outcome = SettledOutcome(@,
                        IF serverProcess[starts[s].mgr] # NoProcess THEN Started
                        ELSE StartFailed(<<"Server failed to start">>))]
    /\ UNCHANGED <<serverProcess, stops, child, port, nodeVars, bridgeVars, cacheVars, codec, otherVars>>

\* Mutant: stopServer takes the manager to hold a process whatever it holds.
AlwaysHolding(proc) == FALSE

\* `if (!this.serverProcess)` of stopServer, before and inside the promise.
NotRunning(proc) == proc = NoProcess

\* this.serverProcess.kill(): the child is sent SIGTERM.
Signalled(c, signal) ==
    IF c.status = "running" /\ c.signal # "SIGKILL" THEN [c EXCEPT !.signal = signal] ELSE c

\* McpServerManager.stopServer() on manager g, to the end of the promise
\* executor. ChildProcess.kill either delivers the signal or throws, and what
\* the executor throws rejects the promise before the "exit" listener and the
\* force-kill timer are set up.
ManagerStop(g, p, killThrows) ==
    /\ ~stops[p].called
    /\ \A q \in 1..(p - 1) : stops[q].called
    /\ UNCHANGED serverProcess
    /\ IF NotRunning(serverProcess[g])
       THEN /\ stops' = [stops EXCEPT ![p] =
                           [called |-> TRUE, mgr |-> g, target |-> NoProcess, timer |-> FALSE,
                            outcome |-> Stopped, before |-> {}]]
            /\ UNCHANGED child
       ELSE IF killThrows
       THEN /\ stops' = [stops EXCEPT ![p] =
                           [called |-> TRUE, mgr |-> g, target |-> NoProcess, timer |-> FALSE,
                            outcome |-> StopFailed(<<"kill">>), before |-> {}]]
            /\ UNCHANGED child
       ELSE /\ child' = [j \in StartIds |->
                           IF j = serverProcess[g] THEN Signalled(child[j], "SIGTERM")
                           ELSE child[j]]
            /\ stops' = [stops EXCEPT ![p] =
                           [called |-> TRUE, mgr |-> g, target |-> serverProcess[g],
                            timer |-> TRUE, outcome |-> NoOutcome,
                            before |-> {s \in StartIds : starts[s].timer}]]

\* A stopServer() call made directly on manager g.
stopServer(g, p, killThrows) ==
    /\ ManagerStop(g, p, killThrows)
    /\ UNCHANGED <<starts, port, nodeVars, bridgeVars, cacheVars, codec, otherVars>>

\* The force-kill callback of stop call p, 5 s after the call. The start waits
\* and force-kill timers armed before it have gone off by then.
StopGraceElapsed(p) ==
    /\ stops[p].timer
    /\ \A s \in stops[p].before : ~starts[s].timer
    /\ \A q \in 1..(p - 1) : ~stops[q].timer
    /\ LET g == stops[p].mgr
       IN IF serverProcess[g] # NoProcess
          THEN /\ child' = [j \in StartIds |->
                              IF j = serverProcess[g] THEN Signalled(child[j], "SIGKILL")
                              ELSE child[j]]
               /\ serverProcess' = [serverProcess EXCEPT ![g] = NoProcess]
               /\ stops' = [stops EXCEPT ![p].timer = FALSE,
                                         ![p].outcome = SettledOutcome(@, Stopped)]
          ELSE /\ stops' = [stops EXCEPT ![p].timer = FALSE]
               /\ UNCHANGED <<serverProcess, child>>
    /\ UNCHANGED <<starts, port, nodeVars, bridgeVars, cacheVars, codec, otherVars>>

\* getServerUrl(): the serverUrl the constructor computed from the port.
getServerUrl(g) == Str(<<"http://localhost:", serverPort>>)

(* ------------------------------------------- the child's startServer(port) *)
\* isPortInUse(port): binding a test server fails with EADDRINUSE.
isPortInUse == port # "free"

\* Mutant: the child tries to free the port whatever the first probe said.
AlwaysKill(inUse) == "kill"

\* `if (portInUse)`: where startServer(port) goes after its first probe.
AfterProbe(inUse) == IF inUse THEN "kill" ELSE "bind"

\* Mutant: a port still in use after the kill is killed and probed again.
RetryAfterReprobe(stillInUse) == IF stillInUse THEN "kill" ELSE "bind"

\* `if (stillInUse) { ...; return }`: where it goes after the second probe.
AfterReprobe(stillInUse) == IF stillInUse THEN "gaveUp" ELSE "bind"

ProbeResult(inUse) == IF inUse THEN "inUse" ELSE "free"

\* The children serving on the target port.
Listening == {k \in StartIds : child[k].status = "running" /\ child[k].pc = "listening"}

\* Another process binds the target port before the manager starts anything.
OtherBinds ==
    /\ port = "free"
    /\ \A s \in StartIds : ~starts[s].called
    /\ port' = "other"
    /\ UNCHANGED <<serverProcess, starts, stops, child, nodeVars, bridgeVars, cacheVars, codec, otherVars>>

\* `const portInUse = await isPortInUse(port)` in child k.
ChildProbes(k) ==
    /\ child[k].status = "running"
    /\ child[k].pc = "probe"
    /\ child' = [child EXCEPT ![k].firstProbe = ProbeResult(isPortInUse),
                              ![k].pc = AfterProbe(isPortInUse)]
    /\ UNCHANGED <<serverProcess, starts, stops, port, nodeVars, bridgeVars, cacheVars, codec, otherVars>>

\* `await killProcessOnPort(port, logger)` in child k: the kill command ends
\* the process holding the port (freed) or fails; either way the promise
\* resolves. A child of this manager that held the port ends and its "exit"
\* listener runs.
ChildKills(k, freed) ==
    /\ child[k].status = "running"
    /\ child[k].pc = "kill"
    /\ child' = [j \in StartIds |->
                    IF j = k THEN [child[k] EXCEPT !.kills = @ + 1, !.pc = "reprobe"]
                    ELSE IF freed /\ j \in Listening THEN [child[j] EXCEPT !.status = "exited"]
                    ELSE child[j]]
    /\ port' = IF freed THEN "free" ELSE port
    /\ serverProcess' = [g \in ManagerIds |->
                            IF freed /\ \E j \in Listening : ManagerOf(j) = g
                            THEN NoProcess ELSE serverProcess[g]]
    /\ stops' = [p \in StopIds |->
                    IF freed /\ stops[p].target \in Listening
                    THEN [stops[p] EXCEPT !.outcome = SettledOutcome(@, Stopped)]
                    ELSE stops[p]]
    /\ UNCHANGED <<starts, nodeVars, bridgeVars, cacheVars, codec, otherVars>>

\* `const stillInUse = await isPortInUse(port)` in child k.
ChildReprobes(k) ==
    /\ child[k].status = "running"
    /\ child[k].pc = "reprobe"
    /\ child' = [child EXCEPT ![k].secondProbe = ProbeResult(isPortInUse),
                              ![k].pc = AfterReprobe(isPortInUse)]
    /\ UNCHANGED <<serverProcess, starts, stops, port, nodeVars, bridgeVars, cacheVars, codec, otherVars>>

\* `app.listen(port, ...)` in child k; on a port that is taken the server
\* emits an "error" nobody handles.
ChildListens(k) ==
    /\ child[k].status = "running"
    /\ child[k].pc = "bind"
    /\ IF port = "free"
       THEN /\ child' = [child EXCEPT ![k].pc = "listening"]
            /\ port' = "child"
       ELSE /\ child' = [child EXCEPT ![k].pc = "bindFailed"]
            /\ port' = port
    /\ UNCHANGED <<serverProcess, starts, stops, nodeVars, bridgeVars, cacheVars, codec, otherVars>>

\* The McpServerManager that is studied on its own.
TheManager == CHOOSE g \in ManagerIds : \A h \in ManagerIds : g <= h

\* One manager, the children it forks and the target port.
NextManager ==
    \/ OtherBinds
    \/ \E s \in StartIds, fileExists \in BOOLEAN, spawnOk \in BOOLEAN :
          startServer(TheManager, s, fileExists, spawnOk)
    \/ \E k \in StartIds : ChildErrorEvent(k)
    \/ \E k \in StartIds : ChildExitEvent(k)
    \/ \E s \in StartIds : StartWaitElapsed(s)
    \/ \E k \in StartIds : ChildProbes(k)
    \/ \E k \in StartIds, freed \in BOOLEAN : ChildKills(k, freed)
    \/ \E k \in StartIds : ChildReprobes(k)
    \/ \E k \in StartIds : ChildListens(k)

SpecManager == Init /\ [][NextManager]_vars

\* One manager under startServer() and stopServer() calls; the children are
\* followed up to their exit only.
NextStop ==
    \/ \E s \in StartIds, fileExists \in BOOLEAN, spawnOk \in BOOLEAN :
          startServer(TheManager, s, fileExists, spawnOk)
    \/ \E p \in StopIds, killThrows \in BOOLEAN : stopServer(TheManager, p, killThrows)
    \/ \E k \in StartIds : ChildErrorEvent(k)
    \/ \E k \in StartIds : ChildExitEvent(k)
    \/ \E s \in StartIds : StartWaitElapsed(s)
    \/ \E p \in StopIds : StopGraceElapsed(p)

SpecStop == Init /\ [][NextStop]_vars

(* -------------------------------------- McpNodeServer start, stop, restart *)
\* What an async method of McpNodeServer that returned normally fulfils with.
Returned == [kind |-> "resolved", value |-> Undef]

\* McpNodeServer.startServer() run by call n, to its first await: a new
\* manager replaces this.serverManager; when the server file is there the
\* manager's startServer() is called, otherwise the build is awaited.
NodeStartServer(n, kind, fileExists, spawnOk) ==
    /\ serverManager' = n
    /\ UNCHANGED <<stops, port, bridgeVars, cacheVars, codec, otherVars>>
    /\ IF fileExists
       THEN /\ statusBar' = "MCP: Starting..."
            /\ \E s \in StartIds :
                  /\ ManagerStart(n, s, TRUE, spawnOk)
                  /\ nodeOps' = [nodeOps EXCEPT ![n].kind = kind, ![n].pc = "awaitStart",
                                                ![n].startCall = {s}]
       ELSE /\ statusBar' = "MCP: Building..."
            /\ nodeOps' = [nodeOps EXCEPT ![n].kind = kind, ![n].pc = "building"]
            /\ UNCHANGED <<serverProcess, starts, child>>

\* McpNodeServer.stopServer() run by call n, to its await.
NodeStopServer(n, kind, killThrows) ==
    /\ UNCHANGED <<starts, port, serverManager, bridgeVars, cacheVars, codec, otherVars>>
    /\ IF serverManager = NoManager
       THEN /\ nodeOps' = [nodeOps EXCEPT
                             ![n].kind = kind,
                             ![n].pc = IF kind = "stop" THEN "done" ELSE "starting",
                             ![n].outcome = IF kind = "stop" THEN Returned ELSE NoOutcome]
            /\ UNCHANGED <<serverProcess, stops, child, statusBar>>
       ELSE /\ statusBar' = "MCP: Stopping..."
            /\ \E p \in StopIds :
                  /\ ManagerStop(serverManager, p, killThrows)
                  /\ nodeOps' = [nodeOps EXCEPT ![n].kind = kind, ![n].pc = "awaitStop",
                                                ![n].stopCall = {p}]

\* The next call on McpNodeServer is made.
NodeCallable(n) ==
    /\ nodeOps[n].kind = "none"
    /\ \A b \in 1..(n - 1) : nodeOps[b].kind # "none"

\* McpNodeServer.startServer()
NodeStartCalled(n, fileExists, spawnOk) ==
    /\ NodeCallable(n)
    /\ NodeStartServer(n, "start", fileExists, spawnOk)

\* McpNodeServer.stopServer()
NodeStopCalled(n, killThrows) ==
    /\ NodeCallable(n)
    /\ NodeStopServer(n, "stop", killThrows)

\* McpNodeServer.restartServer(), to the await inside its stopServer().
restartServer(n, killThrows) ==
    /\ NodeCallable(n)
    /\ NodeStopServer(n, "restart", killThrows)

\* The manager's stopServer() awaited by call n has settled: stopServer sets
\* the status in its try or in its catch block and returns normally.
NodeStopSettles(n) ==
    /\ nodeOps[n].pc = "awaitStop"
    /\ \E p \in nodeOps[n].stopCall :
          /\ stops[p].outcome.kind # "none"
          /\ statusBar' = IF stops[p].outcome.kind = "resolved"
                          THEN "MCP: Stopped" ELSE "MCP: Error"
          /\ nodeOps' = [nodeOps EXCEPT
                           ![n].stopFailed = (stops[p].outcome.kind = "rejected"),
                           ![n].pc = IF nodeOps[n].kind = "stop" THEN "done" ELSE "starting",
                           ![n].outcome = IF nodeOps[n].kind = "stop" THEN Returned
                                          ELSE NoOutcome]
    /\ UNCHANGED <<serverProcess, starts, stops, child, port, serverManager, bridgeVars, cacheVars, codec, otherVars>>

\* restartServer() goes on after `await this.stopServer()`.
RestartStarts(n, fileExists, spawnOk) ==
    /\ nodeOps[n].pc = "starting"
    /\ NodeStartServer(n, nodeOps[n].kind, fileExists, spawnOk)

\* The build awaited by call n has ended: a failed build is thrown into the
\* catch block of startServer, after a good one this.serverManager is started.
NodeBuildEnds(n, buildOk, fileExists, spawnOk) ==
    /\ nodeOps[n].pc = "building"
    /\ UNCHANGED <<stops, port, serverManager, bridgeVars, cacheVars, codec, otherVars>>
    /\ IF buildOk
       THEN /\ UNCHANGED statusBar
            /\ \E s \in StartIds :
                  /\ ManagerStart(serverManager, s, fileExists, spawnOk)
                  /\ nodeOps' = [nodeOps EXCEPT ![n].pc = "awaitStart", ![n].startCall = {s}]
       ELSE /\ statusBar' = "MCP: Failed"
            /\ nodeOps' = [nodeOps EXCEPT ![n].pc = "done", ![n].startFailed = TRUE,
                                          ![n].outcome = Returned]
            /\ UNCHANGED <<serverProcess, starts, child>>

\* The manager's startServer() awaited by call n has settled: startServer
\* sets the status in its try or in its catch block and returns normally.
NodeStartSettles(n) ==
    /\ nodeOps[n].pc = "awaitStart"
    /\ \E s \in nodeOps[n].startCall :
          /\ starts[s].outcome.kind # "none"
          /\ statusBar' = IF starts[s].outcome.kind = "resolved"
                          THEN "MCP: Running" ELSE "MCP: Failed"
          /\ nodeOps' = [nodeOps EXCEPT
                           ![n].startFailed = (starts[s].outcome.kind = "rejected"),
                           ![n].pc = "done",
                           ![n].outcome = Returned]
    /\ UNCHANGED <<serverProcess, starts, stops, child, port, serverManager, bridgeVars, cacheVars, codec, otherVars>>

\* McpNodeServer under startServer, stopServer and restartServer calls.
NextNode ==
    \/ \E n \in OpIds, fileExists \in BOOLEAN, spawnOk \in BOOLEAN :
          NodeStartCalled(n, fileExists, spawnOk)
    \/ \E n \in OpIds, killThrows \in BOOLEAN : NodeStopCalled(n, killThrows)
    \/ \E n \in OpIds, killThrows \in BOOLEAN : restartServer(n, killThrows)
    \/ \E n \in OpIds : NodeStopSettles(n)
    \/ \E n \in OpIds, fileExists \in BOOLEAN, spawnOk \in BOOLEAN :
          RestartStarts(n, fileExists, spawnOk)
    \/ \E n \in OpIds, buildOk \in BOOLEAN, fileExists \in BOOLEAN, spawnOk \in BOOLEAN :
          NodeBuildEnds(n, buildOk, fileExists, spawnOk)
    \/ \E n \in OpIds : NodeStartSettles(n)
    \/ \E k \in StartIds : ChildErrorEvent(k)
    \/ \E k \in StartIds : ChildExitEvent(k)
    \/ \E s \in StartIds : StartWaitElapsed(s)
    \/ \E p \in StopIds : StopGraceElapsed(p)

SpecNode == Init /\ [][NextNode]_vars

(* ------------------------------------------------- capability discovery *)
\* The child's index.ts runs: initializeBridge() requests the commands and
\* registers its "message" listener and the ListTools handler, then index.ts
\* sends its own GET_COMMANDS; nothing is sent without process.send.
ChildBoots ==
    /\ ~bridgeReady
    /\ channel \in {"up", "none"}
    /\ bridgeReady' = TRUE
    /\ toHost' = IF channel = "up"
                 THEN toHost \o <<stringifyMessage(GetCommandsMessage),
                                  stringifyMessage(GetCommandsMessage)>>
                 ELSE toHost
    /\ UNCHANGED <<now, channel, clientVars, toChild, hostVars>>
    /\ UNCHANGED <<availableCommands, toolHandlers, uncaught, listed>>
    /\ UNCHANGED <<lifeVars, codec, otherVars>>

\* The tools the ListTools handler returns: availableCommands.map(...), which
\* throws inside the async handler when the cache is no array.
ToolsOf(cache) ==
    IF cache.t = "array"
    THEN [kind |-> "tools", names |-> [i \in 1..Len(cache.v) |-> cache.v[i].name]]
    ELSE [kind |-> "error"]

\* A ListTools request is answered from the cache.
ListTools ==
    /\ bridgeReady
    /\ channel \in {"up", "none"}
    /\ listed' = ToolsOf(availableCommands)
    /\ UNCHANGED <<availableCommands, toolHandlers, bridgeReady, uncaught>>
    /\ UNCHANGED <<bridgeVars, lifeVars, codec, otherVars>>

\* The CallTool handler for a tool with a registered handler, which runs
\* executeCommandViaProcess; for any other name it answers "No handler
\* registered" and changes nothing.
CallTool(c, req, sfx) ==
    /\ bridgeReady
    /\ req[1] \in toolHandlers
    /\ executeCommandViaProcess(c, req, sfx)

\* Discovery and one tool call between the child and the host as the
\* repository wires them.
NextDiscovery ==
    \/ ChildBoots
    \/ handleServerMessage
    \/ ChildReceives
    \/ ListTools
    \/ ChildExits
    \/ Tick
    \/ \E req \in Requests, sfx \in RandomSuffixes : CallTool(1, req, sfx)
    \/ TimeoutFires(1)
    \/ CapabilitySettles(1)
    \/ HostThen(1)
    \/ HostCatch(1)

SpecDiscovery == InitBoot /\ [][NextDiscovery]_vars

(* ------------------------------------------------------ message codec *)
\* Values a message member of type any can hold.
CodecValues == {Hi, Null, Num(5), Bool(TRUE), Undef}

\* `args?: any[]`: absent, or an array of up to two values.
CodecArgs ==
    {Undef, Arr(<<>>)} \cup {Arr(<<a>>) : a \in CodecValues}
        \cup {Arr(<<a, b>>) : a \in CodecValues, b \in {Hi, Undef}}

\* Messages of the six kinds, as the child and the host construct them.
Messages ==
    {GetCommandsMessage, CommandsListMessage, [type |-> COMMANDS_LIST, commands |-> Arr(<<>>)]}
    \cup {ExecuteCommandMessage(NoId, c, a) : c \in {"echo", "nope"}, a \in CodecArgs}
    \cup {CommandResultMessage("echo", r, id) : r \in {Hi, Null, Arr(<<Hi, Undef>>)},
                                               id \in PossibleIds}
    \cup {CommandOutputMessage("echo", <<"hi">>, id) : id \in PossibleIds}
    \cup {CommandErrorMessage("fail", <<"boom">>, id) : id \in PossibleIds}

\* A message is handed to stringifyMessage.
Stringify(m) ==
    /\ codec.stage = "idle"
    /\ codec' = [stage |-> "sent", sent |-> m, wire |-> stringifyMessage(m),
                 parsed |-> NoMessage]
    /\ UNCHANGED <<bridgeVars, lifeVars, cacheVars, otherVars>>

\* The text is handed to parseMessage.
Parse ==
    /\ codec.stage = "sent"
    /\ codec' = [codec EXCEPT !.stage = "received", !.parsed = parseMessage(codec.wire)]
    /\ UNCHANGED <<bridgeVars, lifeVars, cacheVars, otherVars>>

NextCodec ==
    \/ \E m \in Messages : Stringify(m)
    \/ Parse

SpecCodec == Init /\ [][NextCodec]_vars

(* ---------------------------------------------------- McpServerInstance *)
\* Mutant: getInstance never finds an initialization in progress.
NeverInitializing(promise) == FALSE

\* `if (this.initializationPromise)`
Initializing(promise) == promise # NoPromise

\* McpServerInstance.getInstance() by call n, to its return or to the await
\* of loadConfig() inside the initialization it starts.
getInstance(n) ==
    /\ gets[n].pc = "idle"
    /\ \A b \in 1..(n - 1) : gets[b].pc # "idle"
    /\ IF instance # NoInstance
       THEN /\ gets' = [gets EXCEPT ![n] = [pc |-> "done", on |-> NoPromise,
                                            result |-> instance]]
            /\ UNCHANGED initializationPromise
       ELSE IF Initializing(initializationPromise)
       THEN /\ gets' = [gets EXCEPT ![n] = [pc |-> "waiting", on |-> initializationPromise,
                                            result |-> NoInstance]]
            /\ UNCHANGED initializationPromise
       ELSE /\ gets' = [gets EXCEPT ![n] = [pc |-> "loading", on |-> n,
                                            result |-> NoInstance]]
            /\ initializationPromise' = n
    /\ UNCHANGED <<instance, servers, cleanups>>
    /\ UNCHANGED <<bridgeVars, lifeVars, cacheVars, codec, taskVars, handlerVars>>

\* loadConfig() of the initialization started by call n has returned: the
\* McpServer is constructed and assigned, the finally block clears the
\* promise, and the promise fulfils with this.instance.
ConfigLoaded(n) ==
    /\ gets[n].pc = "loading"
    /\ servers' = [servers EXCEPT ![n] = "live"]
    /\ instance' = n
    /\ initializationPromise' = NoPromise
    /\ gets' = [gets EXCEPT ![n].pc = "done", ![n].result = n]
    /\ UNCHANGED cleanups
    /\ UNCHANGED <<bridgeVars, lifeVars, cacheVars, codec, taskVars, handlerVars>>

\* Call b, which was handed the initialization promise of another call,
\* resumes once that promise has fulfilled.
GetResumes(b) ==
    /\ gets[b].pc = "waiting"
    /\ gets[gets[b].on].pc = "done"
    /\ gets' = [gets EXCEPT ![b].pc = "done", ![b].result = gets[gets[b].on].result]
    /\ UNCHANGED <<instance, initializationPromise, servers, cleanups>>
    /\ UNCHANGED <<bridgeVars, lifeVars, cacheVars, codec, taskVars, handlerVars>>

\* McpServerInstance.cleanup() by call q, to its await: dispose() sets
\* isDisposed, disposes the disposables and awaits transport.close(); on a
\* McpServer that is disposed already it returns at once.
cleanup(q) ==
    /\ cleanups[q].pc = "idle"
    /\ \A b \in 1..(q - 1) : cleanups[b].pc # "idle"
    /\ IF instance = NoInstance
       THEN /\ cleanups' = [cleanups EXCEPT ![q].pc = "done"]
            /\ UNCHANGED servers
       ELSE /\ cleanups' = [cleanups EXCEPT ![q] = [pc |-> "disposing", target |-> instance]]
            /\ servers' = [servers EXCEPT ![instance] =
                              IF @ = "live" THEN "disposing" ELSE @]
    /\ UNCHANGED <<instance, initializationPromise, gets>>
    /\ UNCHANGED <<bridgeVars, lifeVars, cacheVars, codec, taskVars, handlerVars>>

\* dispose() awaited by cleanup call q has returned: `this.instance = null`.
CleanupResumes(q) ==
    /\ cleanups[q].pc = "disposing"
    /\ cleanups' = [cleanups EXCEPT ![q].pc = "done"]
    /\ servers' = [servers EXCEPT ![cleanups[q].target] = "disposed"]
    /\ instance' = NoInstance
    /\ UNCHANGED <<initializationPromise, gets>>
    /\ UNCHANGED <<bridgeVars, lifeVars, cacheVars, codec, taskVars, handlerVars>>

\* getInstance() calls alone.
NextInstance ==
    \/ \E n \in GetIds : getInstance(n)
    \/ \E n \in GetIds : ConfigLoaded(n)
    \/ \E b \in GetIds : GetResumes(b)

SpecInstance == Init /\ [][NextInstance]_vars

\* getInstance() and cleanup() calls.
NextCleanup ==
    \/ \E n \in GetIds : getInstance(n)
    \/ \E n \in GetIds : ConfigLoaded(n)
    \/ \E b \in GetIds : GetResumes(b)
    \/ \E q \in CleanupIds : cleanup(q)
    \/ \E q \in CleanupIds : CleanupResumes(q)

SpecCleanup == Init /\ [][NextCleanup]_vars

(* --------------------------------------------------------------- claims *)
\* The call whose EXECUTE_COMMAND started execution e: the channel is FIFO and
\* the host starts one execution per EXECUTE_COMMAND, in arrival order.
CallOf(e) == sentOrder[e]

IsTerminal(m) == m.type \in {COMMAND_RESULT, COMMAND_ERROR}

TerminalCount(e) == Cardinality({j \in 1..Len(hostLog[e]) : IsTerminal(hostLog[e][j])})

IsTimeout(oc, command) ==
    /\ oc.kind = "rejected"
    /\ oc.error = <<"Command execution timed out: ", command>>

\* Everything the host sent has been received by a child that is still running.
AllDelivered == channel = "up" /\ toChild = <<>>

\* C1: every EXECUTE_COMMAND the client sends carries the requestId generated
\* for its call, and every message the host sends for that execution carries
\* the same requestId.
ClaimC1 ==
    /\ \A i \in 1..Len(toHost) :
          LET m == parseMessage(toHost[i])
              c == sentOrder[Len(execs) + i]
          IN "requestId" \in DOMAIN m /\ m.requestId = callInfo[c].requestId
    /\ \A e \in 1..Len(execs) : \A j \in 1..Len(hostLog[e]) :
          hostLog[e][j].requestId = callInfo[CallOf(e)].requestId

\* C2: with the channel up, a call of a capability that returns v resolves
\* with v once the host's reply has been received (unless its timeout fired
\* first).
ClaimC2 ==
    \A e \in 1..Len(execs) :
        LET c == CallOf(e)
        IN (/\ execs[e].command = "echo"
            /\ execs[e].phase = "done"
            /\ AllDelivered
            /\ ~IsTimeout(outcome[c], execs[e].command))
           => outcome[c] = [kind |-> "resolved", value |-> execs[e].value]

\* C3: at most one terminal message is acted upon per call; once a terminal
\* message has settled the call, a further one changes nothing.
TheoremC3 ==
    [][\A c \in CallIds :
          /\ acted'[c] <= 1
          /\ acted[c] >= 1 => (outcome'[c] = outcome[c] /\ callState'[c] = callState[c])]_vars

\* A call was settled by a terminal message and then received another terminal
\* message carrying its id.
WitnessC3 == lateSeen /\ \E c \in CallIds : acted[c] = 1 /\ c \notin listeners

\* C4: the host sends exactly one terminal message for every EXECUTE_COMMAND
\* it handles.
ClaimC4 ==
    \A e \in 1..Len(execs) :
        /\ TerminalCount(e) <= 1
        /\ (execs[e].phase = "done" /\ channel = "up") => TerminalCount(e) = 1

\* C5: when the capability raises, the host sends no COMMAND_RESULT for that
\* execution, only a COMMAND_ERROR.
ClaimC5 ==
    \A e \in 1..Len(execs) :
        execs[e].error # <<>> =>
            \A j \in 1..Len(hostLog[e]) : hostLog[e][j].type # COMMAND_RESULT

\* C6: an unknown command gets a COMMAND_ERROR under the call's requestId whose
\* message contains the name, and the call rejects with a message containing it.
ClaimC6 ==
    \A e \in 1..Len(execs) :
        LET c == CallOf(e)
            name == execs[e].command
        IN (name \notin commandsMap /\ execs[e].phase = "done" /\ AllDelivered) =>
              /\ \E j \in 1..Len(hostLog[e]) :
                    /\ hostLog[e][j].type = COMMAND_ERROR
                    /\ hostLog[e][j].requestId = callInfo[c].requestId
                    /\ Contains(hostLog[e][j].error, name)
              /\ callState[c] # "pending" =>
                    (outcome[c].kind = "rejected" /\ Contains(outcome[c].error, name))

\* C7: a timeout that goes off rejects the call with the timeout error, and
\* nothing that arrives afterwards changes that outcome.
TheoremC7 ==
    [][\A c \in CallIds :
          /\ (c \in timers /\ c \notin timers' /\ acted'[c] = acted[c]) =>
                (/\ callState'[c] = "rejected"
                 /\ outcome'[c].kind = "rejected"
                 /\ outcome'[c].error = <<"Command execution timed out: ", callInfo[c].command>>)
          /\ IsTimeout(outcome[c], callInfo[c].command) =>
                (outcome'[c] = outcome[c] /\ callState'[c] = "rejected")]_vars

\* A call timed out and afterwards received a terminal message carrying its id.
WitnessC7 ==
    \E c \in CallIds : IsTimeout(outcome[c], callInfo[c].command) /\ acted[c] = 1

\* C8: the registered response listeners and the armed timers are exactly the
\* calls that are pending.
ClaimC8 ==
    \A c \in CallIds :
        /\ c \in listeners <=> callState[c] = "pending"
        /\ c \in timers <=> callState[c] = "pending"

\* C9: without process.send a call fails at once with the transport error,
\* sends nothing and leaves no listener and no timer behind.
TheoremC9 ==
    channel = "none" =>
        /\ listeners = {}
        /\ timers = {}
        /\ toHost = <<>>
        /\ \A c \in CallIds :
              callState[c] # "idle" =>
                 /\ callState[c] = "rejected"
                 /\ outcome[c].kind = "rejected"
                 /\ outcome[c].error =
                       <<"Cannot communicate with VSCode extension: process.send is not available">>

\* A call was made without process.send.
WitnessC9 == channel = "none" /\ \E c \in CallIds : callState[c] = "rejected"

\* C10: the host invokes the capability with the elements of an args sequence
\* as separate parameters, with an args object as the single parameter, and
\* with no parameter when args is absent or null.
TheoremC10 ==
    \A e \in 1..Len(execs) :
        LET a == execs[e].sentArgs
            params == execs[e].params
        IN /\ a.t = "array" => params = a.v
           /\ a.t = "object" => params = <<a>>
           /\ a.t \in {"undefined", "null"} => params = <<>>

\* The host invoked a capability for a two-element args sequence.
WitnessC10 ==
    \E e \in 1..Len(execs) : execs[e].sentArgs = TwoArgs /\ Len(execs[e].params) = 2

IsScalar(x) == x.t \in {"string", "number", "boolean"}

\* C11: for every scalar args value of an EXECUTE_COMMAND (a string, a number
\* or a boolean, 0, false and the empty string included), the host invokes the
\* capability with exactly that scalar as its single parameter.
ClaimC11 ==
    \A e \in 1..Len(execs) :
        IsScalar(execs[e].sentArgs) => execs[e].params = <<execs[e].sentArgs>>

\* C13: for an execution of echo, a capability without incremental progress,
\* the host sends no COMMAND_OUTPUT at all.
ClaimC13 ==
    \A e \in 1..Len(execs) :
        execs[e].command = "echo" =>
            \A j \in 1..Len(hostLog[e]) : hostLog[e][j].type # COMMAND_OUTPUT

\* The messages the host has sent that the child has not received yet, in the
\* order sendMessageToServer was called.
InFlight == [i \in 1..Len(toChild) |-> parseMessage(toChild[i])]

\* C12: for every requestId the terminal message is the last message the host
\* sends: no COMMAND_OUTPUT is sent after a COMMAND_RESULT or COMMAND_ERROR
\* carrying the same requestId, neither within one execution nor on the channel.
ClaimC12 ==
    /\ \A e \in 1..Len(execs) : \A i, j \in 1..Len(hostLog[e]) :
          (i < j /\ IsTerminal(hostLog[e][i])) => hostLog[e][j].type # COMMAND_OUTPUT
    /\ \A i, j \in 1..Len(InFlight) :
          (/\ i < j
           /\ IsTerminal(InFlight[i])
           /\ InFlight[j].type = COMMAND_OUTPUT) => InFlight[j].requestId # InFlight[i].requestId

\* The step in which the child receives the oldest message in flight.
ChildReceivesStep == channel = "up" /\ channel' = "up" /\ toChild # <<>> /\ toChild' = Tail(toChild)

\* C14: when the child receives a COMMAND_OUTPUT carrying the requestId of a
\* pending call, the chunk is appended to what that invocation's caller is
\* handed, after the chunks that arrived before it.
ClaimC14 ==
    [][ChildReceivesStep =>
          LET m == parseMessage(Head(toChild))
          IN \A c \in CallIds :
                (/\ callState[c] = "pending"
                 /\ m # NoMessage
                 /\ m.type = COMMAND_OUTPUT
                 /\ Get(m, "requestId") = callInfo[c].requestId)
                => sink'[c] = Append(sink[c], Get(m, "output"))]_vars

\* The step in which startServer() call s is made.
StartCalled(s) == ~starts[s].called /\ starts'[s].called

\* C15: startServer() on a manager that is already running (an earlier start
\* reported success, no start wait is pending, the process is still held)
\* returns success, forks no child and changes neither serverProcess nor
\* anything else the manager holds.
TheoremC15 ==
    [][\A s \in StartIds :
          (/\ StartCalled(s)
           /\ serverProcess[TheManager] # NoProcess
           /\ InFlightStarts(TheManager) = {}
           /\ \E b \in StartIds : starts[b].outcome = Started)
          => /\ starts'[s].outcome = Started
             /\ ~starts'[s].timer
             /\ serverProcess' = serverProcess
             /\ child' = child
             /\ port' = port
             /\ \A b \in StartIds \ {s} : starts'[b] = starts[b]]_vars

\* The second startServer() call was made on a manager whose first call had
\* reported success and which still held that call's child.
WitnessC15 ==
    /\ starts[1].outcome = Started
    /\ starts[2].called
    /\ starts[2].joined = {}
    /\ child[2].status = "none"
    /\ serverProcess[TheManager] = 1

\* C16: a startServer() call made while an earlier call's start is in progress
\* forks no second child and settles only when, and as, that earlier call does.
ClaimC16 ==
    \A s \in StartIds : \A b \in starts[s].joined :
        /\ child[s].status = "none"
        /\ starts[s].outcome = starts[b].outcome

\* C17: startServer() reports success only when the child it holds is serving
\* on the port (so that a ready message or a health probe can have succeeded),
\* and a start that fails leaves no child of its own running.
ClaimC17 ==
    [][\A s \in StartIds :
          /\ (starts[s].outcome.kind # "resolved" /\ starts'[s].outcome.kind = "resolved")
                => serverProcess'[starts'[s].mgr] \in Listening'
          /\ starts'[s].outcome.kind = "rejected" => child'[s].status # "running"]_vars

\* C18: when the port is still in use after the one kill, the start that
\* forked the child fails and the child is not left running nor held by the
\* manager.
ClaimC18 ==
    \A k \in StartIds :
        (child[k].pc = "gaveUp" /\ ~starts[k].timer)
        => /\ starts[k].outcome.kind = "rejected"
           /\ child[k].status # "running"
           /\ serverProcess[ManagerOf(k)] # k

\* C19: one run of the child's startServer(port) calls killProcessOnPort at
\* most once, and after the second probe it binds or gives up: it never goes
\* back to probing or killing.
TheoremC19 ==
    [][\A k \in StartIds :
          /\ child'[k].kills <= 1
          /\ child[k].pc = "reprobe" => child'[k].pc \in {"reprobe", "bind", "gaveUp"}
          /\ child[k].pc \in {"bind", "listening", "gaveUp", "bindFailed"}
                => child'[k].pc \in {"bind", "listening", "gaveUp", "bindFailed"}]_vars

\* A child killed once, probed again, found the port still in use and gave up.
WitnessC19 ==
    \E k \in StartIds :
        child[k].kills = 1 /\ child[k].secondProbe = "inUse" /\ child[k].pc = "gaveUp"

\* C20: a child that found the port free never calls killProcessOnPort; a
\* child that found it in use and free after the kill goes on to bind it, and
\* once it has and the start wait is over, the start has reported success with
\* the child serving on the port.
TheoremC20 ==
    \A k \in StartIds :
        /\ child[k].firstProbe = "free" => child[k].kills = 0
        /\ (child[k].firstProbe = "inUse" /\ child[k].secondProbe = "free")
              => /\ child[k].pc \in {"bind", "listening"}
                 /\ (/\ child[k].pc # "bind"
                     /\ child[k].status = "running"
                     /\ serverProcess[ManagerOf(k)] = k
                     /\ ~starts[k].timer)
                    => (starts[k].outcome = Started /\ k \in Listening /\ port = "child")

\* The port was in use, the kill freed it, the child bound it and the start
\* reported success.
WitnessC20 ==
    \E k \in StartIds :
        /\ child[k].firstProbe = "inUse"
        /\ child[k].secondProbe = "free"
        /\ k \in Listening
        /\ starts[k].outcome = Started
        /\ serverProcess[ManagerOf(k)] = k

\* The step in which stopServer() call p is made.
StopCalled(p) == ~stops[p].called /\ stops'[p].called

\* C22: stopServer() on a manager that holds no process (never started, or
\* stopped by an earlier stopServer()) fulfils at once, signals no child and
\* changes nothing the manager holds.
TheoremC22 ==
    [][\A p \in StopIds :
          (StopCalled(p) /\ serverProcess[stops'[p].mgr] = NoProcess)
          => /\ stops'[p].outcome = Stopped
             /\ ~stops'[p].timer
             /\ serverProcess' = serverProcess
             /\ child' = child
             /\ starts' = starts
             /\ port' = port
             /\ \A q \in StopIds \ {p} : stops'[q] = stops[q]]_vars

\* A stopServer() call stopped a child, and the next call found the manager
\* stopped.
WitnessC22 ==
    \E p, q \in StopIds :
        /\ p < q
        /\ stops[p].target # NoProcess
        /\ stops[p].outcome = Stopped
        /\ child[stops[p].target].status = "exited"
        /\ stops[q].called
        /\ stops[q].target = NoProcess
        /\ stops[q].outcome = Stopped

\* The step in which the force-kill callback of stop call p sends SIGKILL to
\* child j.
ForceKills(p, j) ==
    /\ stops[p].timer
    /\ ~stops'[p].timer
    /\ child[j].signal # "SIGKILL"
    /\ child'[j].signal = "SIGKILL"

\* C23: stopServer() on a running manager sends SIGTERM first and SIGKILL only
\* to the child it was called on, when that child has not exited by the end
\* of the grace period; when the call fulfils the manager holds no process.
ClaimC23 ==
    [][\A p \in StopIds :
          /\ (StopCalled(p) /\ stops'[p].target # NoProcess
                /\ child[stops'[p].target].status = "running")
                => child'[stops'[p].target].signal \in {"SIGTERM", "SIGKILL"}
          /\ \A j \in StartIds :
                ForceKills(p, j) => (j = stops[p].target /\ child[j].signal = "SIGTERM")
          /\ (stops[p].outcome.kind = "none" /\ stops'[p].outcome = Stopped)
                => serverProcess'[stops'[p].mgr] = NoProcess]_vars

\* C24: once a child of the manager has ended and the manager holds no
\* process, the server URL the manager reports is null.
ClaimC24 ==
    \A g \in ManagerIds :
        (/\ serverProcess[g] = NoProcess
         /\ \E k \in StartIds : ManagerOf(k) = g /\ child[k].status = "exited")
        => getServerUrl(g) = Null

\* C21: restartServer() whose stopServer() failed goes no further: it never
\* calls startServer() (no build awaited, no manager started) and, once it has
\* ended, the caller's promise is rejected.
ClaimC21 ==
    \A n \in OpIds :
        (nodeOps[n].kind = "restart" /\ nodeOps[n].stopFailed)
            => /\ nodeOps[n].startCall = {}
               /\ nodeOps[n].pc \notin {"building", "awaitStart"}
               /\ nodeOps[n].pc = "done" => nodeOps[n].outcome.kind = "rejected"

\* C25: when the manager's startServer() made by a startServer() or
\* restartServer() call on McpNodeServer has failed (file missing, spawn
\* error, child gone during the start wait) and the call has ended, the
\* caller's promise is rejected, and the child of the failed start is neither
\* alive nor held by its manager.
ClaimC25 ==
    \A n \in OpIds : \A s \in nodeOps[n].startCall :
        (nodeOps[n].pc = "done" /\ starts[s].outcome.kind = "rejected")
            => /\ nodeOps[n].outcome.kind = "rejected"
               /\ serverProcess[ManagerOf(s)] # s
               /\ child[s].status # "running"

\* An execution the host still tracks: its last message has not been sent.
PendingExecs == {e \in 1..Len(execs) : execs[e].phase # "done"}

\* C28: no two pending calls of the client share a requestId, and no two
\* executions the host is tracking at one time share a requestId, whether the
\* id came with the message or was substituted by the host.
ClaimC28 ==
    /\ \A a, b \in CallIds :
          (a # b /\ callState[a] = "pending" /\ callState[b] = "pending")
              => callInfo[a].requestId # callInfo[b].requestId
    /\ \A e, f \in PendingExecs : e # f => execs[e].requestId # execs[f].requestId

\* C26: text that is not JSON parses to null, and no message, well formed or
\* not, makes an exception escape a "message" listener of the child.
ClaimC26 ==
    /\ \A w \in AnyHostTexts : "json" \notin DOMAIN w => parseMessage(w) = NoMessage
    /\ ~uncaught

\* The host handles a GET_COMMANDS in this step while the child is running.
GetCommandsHandled ==
    /\ toHost # <<>>
    /\ toHost' = Tail(toHost)
    /\ parseMessage(Head(toHost)).type = GET_COMMANDS
    /\ channel = "up"

Rediscoveries ==
    {i \in (Len(toHost) + 1)..Len(toHost') :
        parseMessage(toHost'[i]).type = GET_COMMANDS}

\* C30: index.ts sends GET_COMMANDS when it starts with a channel; a
\* COMMANDS_LIST the child receives becomes the cache; and a ListTools request
\* that finds the cache empty sends GET_COMMANDS again.
ClaimC30 ==
    [][/\ (~bridgeReady /\ bridgeReady' /\ channel = "up") => Rediscoveries # {}
       /\ (/\ channel = "up"
           /\ toChild # <<>>
           /\ toChild' = Tail(toChild)
           /\ parseMessage(Head(toChild)).type = COMMANDS_LIST)
             => availableCommands' = parseMessage(Head(toChild)).commands
       /\ (listed' # listed /\ availableCommands = Arr(<<>>) /\ channel = "up")
             => Rediscoveries # {}]_vars

\* a.k = b.k for every member k: an absent member reads as undefined.
SameMessage(a, b) ==
    /\ DOMAIN a \ ValueFields = DOMAIN b \ ValueFields
    /\ \A k \in DOMAIN a \ ValueFields : a[k] = b[k]
    /\ \A k \in ValueFields : Get(a, k) = Get(b, k)

GraceCallback(p) == stops[p].timer /\ ~stops'[p].timer

\* C32: the force-kill callback of a stopServer() call touches only the
\* process the call was made on: every other child is left as it is, and a
\* handle that holds another child is not cleared.
ClaimC32 ==
    [][\A p \in StopIds :
          GraceCallback(p)
              => /\ \A j \in StartIds \ {stops[p].target} : child'[j] = child[j]
                 /\ serverProcess[stops[p].mgr] # stops[p].target
                       => serverProcess' = serverProcess]_vars

\* The child manager g forked last, or NoProcess when it has forked none.
CurrentChild(g) ==
    LET forked == {k \in StartIds : ManagerOf(k) = g /\ child[k].status # "none"}
    IN IF forked = {} THEN NoProcess
       ELSE CHOOSE k \in forked : \A j \in forked : j <= k

\* C33: the manager reports running while the child it forked last is alive
\* and has not been sent SIGKILL, and reports not running once that child has
\* exited or failed to spawn, whatever happens to earlier children.
ClaimC33 ==
    \A g \in ManagerIds :
        LET k == CurrentChild(g)
        IN k # NoProcess
              => /\ (child[k].status = "running" /\ child[k].signal # "SIGKILL")
                       => serverProcess[g] # NoProcess
                 /\ child[k].status \in {"exited", "failed"} => serverProcess[g] = NoProcess

\* The McpServers constructed so far.
ConstructedServers == {v \in GetIds : servers[v] # "none"}

\* C31: under getInstance() calls alone, whatever their interleaving with the
\* loading of the configuration, at most one McpServer is constructed and
\* every call that has returned holds that one.
TheoremC31 ==
    /\ Cardinality(ConstructedServers) <= 1
    /\ \A n \in GetIds :
          gets[n].pc = "done" => (gets[n].result = instance /\ servers[instance] = "live")

\* A call started the initialization, a second one made during the loading
\* was handed its promise, and a third one made afterwards read the instance.
WitnessC31 ==
    \E a, b, c \in GetIds :
        /\ gets[a].pc = "done" /\ gets[a].on = a
        /\ b # a /\ gets[b].pc = "done" /\ gets[b].on = a
        /\ gets[c].pc = "done" /\ gets[c].on = NoPromise

\* getInstance() call n returns in this step.
GetReturns(n) == gets[n].pc # "done" /\ gets'[n].pc = "done"

\* C40: a getInstance() call never returns a McpServer whose dispose() has
\* been started.
ClaimC40 ==
    [][\A n \in GetIds : GetReturns(n) => servers'[gets'[n].result] = "live"]_vars

\* The children that are alive and have not been sent SIGKILL.
Alive == {k \in StartIds : child[k].status = "running" /\ child[k].signal # "SIGKILL"}

\* C34: of the children McpNodeServer has started at most one is alive at any
\* time, and it is the one held by the manager McpNodeServer uses.
ClaimC34 ==
    /\ Cardinality(Alive) <= 1
    /\ \A k \in Alive : serverManager = ManagerOf(k)

\* The text w is a COMMAND_RESULT or COMMAND_ERROR carrying the id.
CarriesId(w, id) ==
    /\ "json" \in DOMAIN w
    /\ w.json.type \in {COMMAND_RESULT, COMMAND_ERROR}
    /\ "requestId" \in DOMAIN w.json
    /\ w.json.requestId = id

\* Call c is as it was: pending, with its timer and its listener.
CallUntouched(c) ==
    /\ callState'[c] = callState[c]
    /\ outcome'[c] = outcome[c]
    /\ (c \in timers') = (c \in timers)
    /\ (c \in listeners') = (c \in listeners)

\* C36: a pending call is left as it is by every received text that is not a
\* terminal message carrying its id, and it stops being pending only on such
\* a message or on its own timeout.
TheoremC36 ==
    [][\A c \in CallIds :
          callState[c] = "pending"
              => /\ \/ CallUntouched(c)
                    \/ \A w \in AnyHostTexts :
                          \/ CarriesId(w, callInfo[c].requestId)
                          \/ ~ChildReceivesAny(w)
                 /\ callState'[c] # "pending"
                       => \/ TimeoutFires(c)
                          \/ \E w \in AnyHostTexts :
                                ChildReceivesAny(w) /\ CarriesId(w, callInfo[c].requestId)]_vars

\* A terminal message settled one call while another call, under a different
\* id, stayed pending.
WitnessC36 ==
    \E c, d \in CallIds :
        /\ callState[c] = "pending"
        /\ callState[d] = "resolved"
        /\ acted[d] = 1
        /\ callInfo[c].requestId # callInfo[d].requestId

\* The Command Client against any host, with a child that may exit at any
\* time. The event loop of a living child runs every timer that is due.
NextClientLive ==
    \/ Tick
    \/ \E c \in CallIds, sfx \in RandomSuffixes :
          executeCommandViaProcess(c, <<"echo", Hi>>, sfx)
    \/ \E c \in CallIds : TimeoutFires(c)
    \/ \E w \in AnyHostTexts : ChildReceivesAny(w)
    \/ ChildExits

SpecClientLive ==
    /\ Init
    /\ [][NextClientLive]_vars
    /\ \A c \in CallIds : WF_vars(TimeoutFires(c))

NewTask == "roo-cline.newTask"
TaskRequest == <<NewTask, PromptObj>>

\* Execution e runs the task command and has not returned from it.
StartingTask(e) ==
    /\ e \in 1..Len(execs)
    /\ execs[e].command = NewTask
    /\ execs[e].phase = "awaiting"

\* message.text of the message events of task t.
TextOf(t) == <<"message of task ", ToString(t)>>

\* The task command of execution e creates its task, which starts to run.
TaskStarts(e) ==
    /\ StartingTask(e)
    /\ tasks[e].status = "none"
    /\ tasks' = [tasks EXCEPT ![e].status = "running"]
    /\ UNCHANGED <<waits, waiters, instVars, handlerVars>>
    /\ UNCHANGED <<bridgeVars, lifeVars, cacheVars, codec>>

\* The task command of execution e returns and executeCommand runs on: with
\* the extension active it registers messageHandler, completionHandler and
\* the abort listener and waits; otherwise it sends the final output and
\* returns.
NewTaskReturns(e, active) ==
    /\ StartingTask(e)
    /\ tasks[e].status # "none"
    /\ IF active
       THEN /\ execs' = [execs EXCEPT ![e].phase = "waiting"]
            /\ waits' = [waits EXCEPT ![e].registered = TRUE]
            /\ waiters' = Append(waiters, e)
            /\ UNCHANGED <<toChild, hostLog>>
       ELSE /\ execs' = [execs EXCEPT ![e].phase = "returned"]
            /\ HostSends(e, CommandResultMessage(NewTask, Str(FinalOutputText(NewTask)),
                                                 execs[e].requestId))
            /\ UNCHANGED <<waits, waiters>>
    /\ UNCHANGED <<now, channel, clientVars, toHost, tasks, instVars, handlerVars>>
    /\ UNCHANGED <<lifeVars, cacheVars, codec>>

\* The task command of execution e raises before any task exists: the catch
\* block of executeCommand.
NewTaskRaises(e) ==
    /\ StartingTask(e)
    /\ tasks[e].status = "none"
    /\ execs' = [execs EXCEPT ![e].phase = "threw", ![e].error = <<"boom">>]
    /\ HostSends(e, CommandResultMessage(NewTask, Str(ErrorResultText(NewTask, <<"boom">>)),
                                         execs[e].requestId))
    /\ UNCHANGED <<now, channel, clientVars, toHost, otherVars>>
    /\ UNCHANGED <<lifeVars, cacheVars, codec>>

\* `if (!taskId) { taskId = msgTaskId }` in messageHandler.
LatchedTask(taskId, msgTaskId) == IF taskId = NoTask THEN msgTaskId ELSE taskId

\* messageHandler of every waiting execution, in the order of registration,
\* for a message event of task t: the waits, then what is sent and logged.
RECURSIVE WaitsAfterMessage(_, _, _, _)
WaitsAfterMessage(order, w, t, hasText) ==
    IF order = <<>> THEN w
    ELSE LET e == Head(order)
             taskId == LatchedTask(w[e].taskId, t)
         IN WaitsAfterMessage(Tail(order),
                [w EXCEPT ![e].taskId = taskId,
                          ![e].latestMessage =
                              IF taskId = t /\ hasText THEN TextOf(t) ELSE @],
                t, hasText)

\* The executions among `order` whose wait, once latched, is on task t.
RECURSIVE Following(_, _, _)
Following(order, w, t) ==
    IF order = <<>> THEN <<>>
    ELSE (IF LatchedTask(w[Head(order)].taskId, t) = t
          THEN <<Head(order)>> ELSE <<>>) \o Following(Tail(order), w, t)

\* sendCommandOutput of the text of task t by each execution of `order`.
RECURSIVE OutputsFor(_, _)
OutputsFor(order, t) ==
    IF order = <<>> THEN <<>>
    ELSE <<[by |-> Head(order),
            msg |-> CommandOutputMessage(NewTask, TextOf(t), execs[Head(order)].requestId)]>>
             \o OutputsFor(Tail(order), t)

\* sendCommandResult of its latestMessage by each execution of `order`.
RECURSIVE ResultsFor(_)
ResultsFor(order) ==
    IF order = <<>> THEN <<>>
    ELSE <<[by |-> Head(order),
            msg |-> CommandResultMessage(NewTask, Str(waits[Head(order)].latestMessage),
                                         execs[Head(order)].requestId)]>>
             \o ResultsFor(Tail(order))

\* sendMessageToServer of each of `sends` in turn, behind isRunning(): the
\* channel to the child, and the log of what each execution sent.
RECURSIVE ChannelAfter(_, _)
ChannelAfter(queue, sends) ==
    IF sends = <<>> \/ ~isRunning THEN queue
    ELSE ChannelAfter(Append(queue, stringifyMessage(Head(sends).msg)), Tail(sends))

RECURSIVE LogAfter(_, _)
LogAfter(log, sends) ==
    IF sends = <<>> \/ ~isRunning THEN log
    ELSE LogAfter([log EXCEPT ![Head(sends).by] =
                       Append(@, parseMessage(stringifyMessage(Head(sends).msg)))],
                  Tail(sends))

\* resolve() in each execution of `done`: its wait is over.
RECURSIVE WaitOver(_, _)
WaitOver(x, done) ==
    IF done = <<>> THEN x
    ELSE WaitOver([x EXCEPT ![Head(done)].phase = "returned"], Tail(done))

\* Task t emits a message event, with or without text.
TaskEmitsMessage(t, hasText) ==
    /\ tasks[t].status = "running"
    /\ hasText \notin tasks[t].said
    /\ tasks' = [tasks EXCEPT ![t].said = @ \cup {hasText}]
    /\ waits' = WaitsAfterMessage(waiters, waits, t, hasText)
    /\ LET senders == IF hasText THEN Following(waiters, waits, t) ELSE <<>>
           sends == OutputsFor(senders, t)
       IN /\ toChild' = ChannelAfter(toChild, sends)
          /\ hostLog' = LogAfter(hostLog, sends)
    /\ UNCHANGED <<now, channel, clientVars, toHost, execs, waiters, instVars,
                   handlerVars>>
    /\ UNCHANGED <<lifeVars, cacheVars, codec>>

\* The executions among `order` whose taskId is t: `taskId === completedTaskId`.
RECURSIVE WaitingFor(_, _, _)
WaitingFor(order, w, t) ==
    IF order = <<>> THEN <<>>
    ELSE (IF w[Head(order)].taskId = t THEN <<Head(order)>> ELSE <<>>)
             \o WaitingFor(Tail(order), w, t)

\* `order` without the members of `gone`: api.off of both handlers.
RECURSIVE Without(_, _)
Without(order, gone) ==
    IF order = <<>> THEN <<>>
    ELSE (IF \E i \in 1..Len(gone) : gone[i] = Head(order) THEN <<>> ELSE <<Head(order)>>)
             \o Without(Tail(order), gone)

\* Task t completes or is aborted: completionHandler, or the abort listener,
\* of every waiting execution; an execution whose taskId is t sends its
\* latestMessage as the result, and its wait is over.
TaskEnds(t, how) ==
    /\ tasks[t].status = "running"
    /\ tasks' = [tasks EXCEPT ![t].status = how]
    /\ LET done == WaitingFor(waiters, waits, t)
           sends == ResultsFor(done)
       IN /\ waiters' = Without(waiters, done)
          /\ execs' = WaitOver(execs, done)
          /\ toChild' = ChannelAfter(toChild, sends)
          /\ hostLog' = LogAfter(hostLog, sends)
    /\ UNCHANGED <<now, channel, clientVars, toHost, waits, instVars, handlerVars>>
    /\ UNCHANGED <<lifeVars, cacheVars, codec>>

\* The host running task commands for a child that stays running.
NextTasks ==
    \/ Tick
    \/ \E c \in CallIds, sfx \in RandomSuffixes : executeCommandViaProcess(c, TaskRequest, sfx)
    \/ handleServerMessage
    \/ \E e \in CallIds : TaskStarts(e)
    \/ \E e \in CallIds, active \in BOOLEAN : NewTaskReturns(e, active)
    \/ \E e \in CallIds : NewTaskRaises(e)
    \/ \E t \in CallIds, hasText \in BOOLEAN : TaskEmitsMessage(t, hasText)
    \/ \E t \in CallIds : TaskEnds(t, "completed")
    \/ \E t \in CallIds : TaskEnds(t, "aborted")
    \/ \E e \in CallIds : HostThen(e)
    \/ \E e \in CallIds : HostCatch(e)

SpecTasks == Init /\ [][NextTasks]_vars

\* The terminal messages execution e has sent.
TerminalsOf(e) ==
    {i \in 1..Len(hostLog[e]) : hostLog[e][i].type \in {COMMAND_RESULT, COMMAND_ERROR}}

\* C37: while the child runs, a task command that has returned and whose
\* task has completed or been aborted has been answered with a terminal
\* message.
ClaimC37 ==
    isRunning =>
        \A e \in 1..Len(execs) :
            (/\ execs[e].command = NewTask
             /\ execs[e].phase # "awaiting"
             /\ tasks[e].status \in {"completed", "aborted"})
                => TerminalsOf(e) # {}

\* The texts of message events that execution e has sent, as output or as
\* the result of its wait.
TaskTextsOf(e) ==
    {hostLog[e][i].output.v : i \in {j \in 1..Len(hostLog[e]) :
                                        hostLog[e][j].type = COMMAND_OUTPUT}}
    \cup {hostLog[e][i].output.result.v :
             i \in {j \in TerminalsOf(e) : /\ hostLog[e][j].type = COMMAND_RESULT
                                           /\ "result" \in DOMAIN hostLog[e][j].output
                                           /\ hostLog[e][j].output.result.t = "string"}}

\* C39: of two task executions under different ids, each sends only texts
\* of its own task, and the wait of each is over only once its own task has
\* completed or been aborted.
ClaimC39 ==
    \A e, f \in 1..Len(execs) :
        (/\ e # f
         /\ execs[e].command = NewTask
         /\ execs[f].command = NewTask
         /\ execs[e].requestId # execs[f].requestId)
            => /\ TextOf(f) \notin TaskTextsOf(e)
               /\ (waits[e].registered /\ execs[e].phase \in {"returned", "done"})
                      => tasks[e].status \in {"completed", "aborted"}

(* ------------------------------------------------ host message handler *)
\* The most "message" listeners followed on one child.
MaxListeners == 2

\* setMessageHandler(handler) on manager g: the handler is stored, and with a
\* process at hand one more "message" listener is put on it.
setMessageHandler(g) ==
    /\ messageHandler' = [messageHandler EXCEPT ![g] = TRUE]
    /\ IF serverProcess[g] # NoProcess
       THEN /\ child[serverProcess[g]].handlers < MaxListeners
            /\ child' = [child EXCEPT ![serverProcess[g]].handlers = @ + 1]
       ELSE /\ ~messageHandler[g]
            /\ child' = child
    /\ UNCHANGED <<serverProcess, starts, stops, port, nodeVars, delivered, instVars, taskVars>>
    /\ UNCHANGED <<bridgeVars, cacheVars, codec>>

\* Child k sends a message over the channel: every "message" listener on the
\* ChildProcess calls the handler with it.
ChildSendsMessage(k) ==
    /\ child[k].status = "running"
    /\ delivered' = [delivered EXCEPT ![k] =
                        [sent |-> TRUE, handler |-> messageHandler[ManagerOf(k)],
                         times |-> child[k].handlers]]
    /\ UNCHANGED <<messageHandler, instVars, taskVars>>
    /\ UNCHANGED <<bridgeVars, lifeVars, cacheVars, codec>>

\* One manager under any sequence of setMessageHandler and startServer calls.
NextHandlers ==
    \/ \E s \in StartIds, fileExists \in BOOLEAN, spawnOk \in BOOLEAN :
          startServer(TheManager, s, fileExists, spawnOk)
    \/ setMessageHandler(TheManager)
    \/ \E k \in StartIds : ChildSendsMessage(k)
    \/ \E k \in StartIds : ChildErrorEvent(k)
    \/ \E k \in StartIds : ChildExitEvent(k)
    \/ \E s \in StartIds : StartWaitElapsed(s)

SpecHandlers == Init /\ [][NextHandlers]_vars

\* C35: a message a child sent while the manager had a handler ran the
\* handler exactly once.
ClaimC35 ==
    \A k \in StartIds :
        (delivered[k].sent /\ delivered[k].handler) => delivered[k].times = 1
====
